---- MODULE Spec2Model ----
(***************************************************************************)
(* Model of nilearn/group_sparse_covariance.py: the block-coordinate       *)
(* descent solver group_sparse_covariance() and its helpers.               *)
(*                                                                         *)
(* Numbers.  The program computes in float64.  The model computes in       *)
(* fixed point: a number x is the integer nearest to x * Scale, and every  *)
(* product, quotient and square root is rounded to the nearest such        *)
(* integer (FMul, FDiv, FSqrt), as every float operation is rounded to the *)
(* nearest float.  Sums and differences are exact.  A division by zero     *)
(* (inf/nan in float64) is outside the model: TLC stops with an evaluation *)
(* error if an input reaches one.                                          *)
(*                                                                         *)
(* Arrays.  The source indexes omega[i, j, k]; the model writes            *)
(* omega[k][i][j].  Indices start at 0, as in the source.                  *)
(***************************************************************************)
EXTENDS Integers, Sequences, FiniteSets, TLC

VARIABLES
    signals,        \* argument: the sample collection (or NotIterable)
    rho,            \* argument: the regularization parameter
    n_iter,         \* argument: number of sweeps
    return_costs,   \* argument
    pc,             \* position in group_sparse_covariance
    exc,            \* the exception raised, "none" while running
    n_tasks, n_var, n_samples, emp_covs, omega,
    W, Winv,        \* per task: submatrix of omega and its inverse
    y, u,           \* per task: pivot column of omega / of emp_covs
    n, p, m,        \* loop counters: sweep, pivot, coordinate
    costs,          \* the list "costs"
    result,         \* the returned tuple
    warned,         \* number of warnings.warn calls so far
    last,           \* record of the last coordinate step (history)
    zeroed,         \* coordinates of the current pivot with c2 <= rho, each with
                    \* whether some task's entry was non-zero before (history)
    all_zeroed,     \* every coordinate step so far took c2 <= rho (history)
    events          \* what the driver did, in order (history)

vars ==
    <<signals, rho, n_iter, return_costs, pc, exc, n_tasks, n_var, n_samples,
      emp_covs, omega, W, Winv, y, u, n, p, m, costs, result, warned, last,
      zeroed, all_zeroed, events>>

-----------------------------------------------------------------------------
(* Bounds of the model *)

\* fixed-point resolution: x is stored as the nearest integer to x * Scale
Scale == 64
\* largest n_iter tried
MaxIter == 2
\* largest number of tasks tried
MaxTasks == 2
\* iteration budget given to the root search; the code passes maxiter=50
MaxNewtonIter == 9

-----------------------------------------------------------------------------
(* Fixed-point arithmetic *)

Abs(x) == IF x < 0 THEN -x ELSE x

\* a / b rounded to the nearest integer, halves away from zero (b > 0)
Round(a, b) ==
    IF a >= 0 THEN (2 * a + b) \div (2 * b) ELSE -((2 * (-a) + b) \div (2 * b))

FMul(a, b) == Round(a * b, Scale)

FDiv(a, b) == IF b < 0 THEN Round(-(a * Scale), -b) ELSE Round(a * Scale, b)

RECURSIVE ISqrt(_, _, _)
\* the largest r in lo..hi with r * r <= v
ISqrt(v, lo, hi) ==
    IF lo >= hi THEN lo
    ELSE LET mid == (lo + hi + 1) \div 2
         IN  IF mid * mid <= v THEN ISqrt(v, mid, hi) ELSE ISqrt(v, lo, mid - 1)

\* np.sqrt of a non-negative number, rounded to nearest
FSqrt(x) ==
    LET v == x * Scale
        r == ISqrt(v, 0, IF v < 46340 THEN v ELSE 46340)
    IN  IF v - r * r > r THEN r + 1 ELSE r

RECURSIVE SumTo(_, _)
\* f[0] + ... + f[hi]
SumTo(f, hi) == IF hi < 0 THEN 0 ELSE f[hi] + SumTo(f, hi - 1)

\* np.dot of two vectors of length d
Dot(a, b, d) == SumTo([i \in 0..(d - 1) |-> FMul(a[i], b[i])], d - 1)

\* vector / matrix index sets
Idx(d) == 0..(d - 1)

\* M with row i and column j deleted (d is the size of M)
Minor(M, d, i, j) ==
    [r \in Idx(d - 1) |-> [c \in Idx(d - 1) |->
        M[IF r < i THEN r ELSE r + 1][IF c < j THEN c ELSE c + 1]]]

RECURSIVE Det(_, _)
\* determinant by expansion along row 0; the empty matrix has determinant 1
Det(M, d) ==
    IF d = 0 THEN Scale
    ELSE IF d = 1 THEN M[0][0]
    ELSE SumTo([j \in Idx(d) |->
                  (IF j % 2 = 0 THEN 1 ELSE -1)
                    * FMul(M[0][j], Det(Minor(M, d, 0, j), d - 1))], d - 1)

\* np.linalg.inv: adjugate over determinant; a zero determinant is the
\* singular matrix for which numpy raises LinAlgError
Singular(M, d) == Det(M, d) = 0

Inv(M, d) ==
    LET dt == Det(M, d)
    IN  [i \in Idx(d) |-> [j \in Idx(d) |->
            FDiv((IF (i + j) % 2 = 0 THEN 1 ELSE -1)
                    * Det(Minor(M, d, j, i), d - 1), dt)]]

-----------------------------------------------------------------------------
(* Inputs *)

\* a square matrix given by its rows, in fixed point, indexed from 0
FromRows(rows) ==
    [i \in Idx(Len(rows)) |-> [j \in Idx(Len(rows)) |-> rows[i + 1][j + 1] * Scale]]

\* M with e added to entry [0][1]: the rounding asymmetry that
\* empirical_covariance may leave and symmetrize() removes
Skewed(M, e) == [M EXCEPT ![0][1] = @ + e]

\* A task is one element of "signals": shape is s.shape = (samples, features),
\* cov is what sklearn's empirical_covariance returns for it.
Task(samples, rows) == [shape |-> <<samples, Len(rows)>>, cov |-> FromRows(rows)]

Tasks ==
    { Task(2, << <<2>> >>),
      Task(4, << <<1, 0>>, <<0, 2>> >>),
      Task(2, << <<5, 4>>, <<4, 5>> >>),
      Task(4, << <<1, 0, 0>>, <<0, 2, 0>>, <<0, 0, 3>> >>),
      [Task(2, << <<2, -1, 0>>, <<-1, 2, 0>>, <<0, 0, 1>> >>)
          EXCEPT !.cov = Skewed(@, 2)],
      Task(4, << <<2, 1, 2>>, <<1, 2, 2>>, <<2, 2, 3>> >>) }

\* A "signals" argument: whether it has __iter__, and the tasks it holds.
\* NotIterable is an argument without __iter__ (a number, None).
NotIterable == [iterable |-> FALSE, items |-> <<>>]

SignalsInputs ==
    {NotIterable}
      \cup {[iterable |-> TRUE, items |-> s] :
               s \in UNION {[1..len -> Tasks] : len \in 0..MaxTasks}}

\* rho: its Python type and (for numbers) its value in fixed point
RhoInputs ==
    { [kind |-> "str", val |-> 0],
      [kind |-> "int", val |-> -Scale],
      [kind |-> "int", val |-> 0],
      [kind |-> "float", val |-> Scale \div 2],
      [kind |-> "int", val |-> 6 * Scale] }

-----------------------------------------------------------------------------
(* Helpers of the source *)

\* symmetrize(M): M[...] = M + M.T ; M[...] /= 2.
symmetrize(M, d) ==
    [i \in Idx(d) |-> [j \in Idx(d) |-> Round(M[i][j] + M[j][i], 2)]]

\* quad_trust_region: rho2 - (cc / ((1. + alpha * q) ** 2)).sum()
quad_trust_region(alpha, q, two_ccq, cc, rho2) ==
    rho2 - SumTo([k \in DOMAIN q |->
                    LET t == Scale + FMul(alpha, q[k])
                    IN  FDiv(cc[k], FMul(t, t))],
                 Cardinality(DOMAIN q) - 1)

\* quad_trust_region_deriv: (two_ccq / (1. + alpha * q) ** 3).sum()
quad_trust_region_deriv(alpha, q, two_ccq, cc, rho2) ==
    SumTo([k \in DOMAIN q |->
             LET t == Scale + FMul(alpha, q[k])
             IN  FDiv(two_ccq[k], FMul(FMul(t, t), t))],
          Cardinality(DOMAIN q) - 1)

RECURSIVE NewtonFrom(_, _, _, _, _, _, _)
\* scipy.optimize.newton with fprime: from p0, step p = p0 - f(p0)/f'(p0).
\* It returns p once the step is below its tolerance, returns p0 where the
\* derivative vanishes, and raises RuntimeError("Failed to converge after %d
\* iterations") when maxiter steps have not brought the step below the
\* tolerance.  At the model's resolution the step is below the tolerance
\* when the iterate has stopped moving: it repeats itself, or it alternates
\* with the iterate before it (prev).  The call site (lines 324-328) has no
\* try/except around it.
NewtonFrom(prev, p0, it, q, two_ccq, cc, rho2) ==
    IF it >= MaxNewtonIter THEN [converged |-> FALSE, x |-> p0]
    ELSE LET fder == quad_trust_region_deriv(p0, q, two_ccq, cc, rho2)
         IN  IF fder = 0 THEN [converged |-> TRUE, x |-> p0]
             ELSE LET pn == p0 - FDiv(quad_trust_region(p0, q, two_ccq, cc, rho2), fder)
                  IN  IF pn = p0 \/ (it > 0 /\ pn = prev)
                      THEN [converged |-> TRUE, x |-> pn]
                      ELSE NewtonFrom(p0, pn, it + 1, q, two_ccq, cc, rho2)

\* alpha = scipy.optimize.newton(quad_trust_region, 0, fprime=..., args=...)
newton(q, two_ccq, cc, rho2) == NewtonFrom(0, 0, 0, q, two_ccq, cc, rho2)

\* update_vectors(full, n): row n and column n of "full" without entry n + 1
\* (N is the size of full)
update_vectors(full, N, nn) ==
    [h |-> [j \in Idx(N - 1) |-> full[nn][IF j <= nn THEN j ELSE j + 1]],
     v |-> [i \in Idx(N - 1) |-> full[IF i <= nn THEN i ELSE i + 1][nn]]]

\* update_submatrix without its last line, sub[:, n] = v
update_submatrix_row_only(full, N, sub, sub_inv, pp) ==
    LET nn == pp - 1
        d == N - 1
        hv == update_vectors(full, N, nn)
        \* change row
        coln0 == [i \in Idx(d) |-> sub_inv[i][nn]]
        V == [j \in Idx(d) |-> hv.h[j] - sub[nn][j]]
        den1 == Scale + Dot(V, coln0, d)
        coln == [i \in Idx(d) |-> FDiv(coln0[i], den1)]
        Vinv == [j \in Idx(d) |-> Dot(V, [i \in Idx(d) |-> sub_inv[i][j]], d)]
        inv1 == [i \in Idx(d) |-> [j \in Idx(d) |->
                    sub_inv[i][j] - FMul(coln[i], Vinv[j])]]
        sub1 == [sub EXCEPT ![nn] = hv.h]
        \* change column
        rown0 == inv1[nn]
        U == [i \in Idx(d) |-> hv.v[i] - sub1[i][nn]]
        den2 == Scale + Dot(rown0, U, d)
        rown == [j \in Idx(d) |-> FDiv(rown0[j], den2)]
        invU == [i \in Idx(d) |-> Dot(inv1[i], U, d)]
        inv2 == [i \in Idx(d) |-> [j \in Idx(d) |->
                    inv1[i][j] - FMul(invU[i], rown[j])]]
    IN  [sub |-> sub1, sub_inv |-> inv2]

\* update_submatrix(full, sub, sub_inv, p): the new sub and sub_inv
update_submatrix(full, N, sub, sub_inv, pp) ==
    LET nn == pp - 1
        d == N - 1
        hv == update_vectors(full, N, nn)
        \* change row
        coln0 == [i \in Idx(d) |-> sub_inv[i][nn]]
        V == [j \in Idx(d) |-> hv.h[j] - sub[nn][j]]
        den1 == Scale + Dot(V, coln0, d)
        coln == [i \in Idx(d) |-> FDiv(coln0[i], den1)]
        Vinv == [j \in Idx(d) |-> Dot(V, [i \in Idx(d) |-> sub_inv[i][j]], d)]
        inv1 == [i \in Idx(d) |-> [j \in Idx(d) |->
                    sub_inv[i][j] - FMul(coln[i], Vinv[j])]]
        sub1 == [sub EXCEPT ![nn] = hv.h]
        \* change column
        rown0 == inv1[nn]
        U == [i \in Idx(d) |-> hv.v[i] - sub1[i][nn]]
        den2 == Scale + Dot(rown0, U, d)
        rown == [j \in Idx(d) |-> FDiv(rown0[j], den2)]
        invU == [i \in Idx(d) |-> Dot(inv1[i], U, d)]
        inv2 == [i \in Idx(d) |-> [j \in Idx(d) |->
                    inv1[i][j] - FMul(invU[i], rown[j])]]
        sub2 == [i \in Idx(d) |-> [sub1[i] EXCEPT ![nn] = hv.v[i]]]
    IN  [sub |-> sub2, sub_inv |-> inv2]

\* _group_sparse_covariance_cost.  fast_logdet is a logarithm and is kept
\* symbolic: the cost is  lin - sum_k n_samples[k] * log(dets[k]),  with
\* lin = sum_k n_samples[k] * (omega_k * emp_covs_k).sum() + rho * l12.
group_sparse_covariance_cost(K, N, ns, rh, om, ec) ==
    LET tr(k) == SumTo([i \in Idx(N) |-> Dot(om[k][i], ec[k][i], N)], N - 1)
        l2(i, j) == FSqrt(SumTo([k \in Idx(K) |-> FMul(om[k][i][j], om[k][i][j])], K - 1))
        total == SumTo([i \in Idx(N) |-> SumTo([j \in Idx(N) |-> l2(i, j)], N - 1)], N - 1)
        diag == SumTo([i \in Idx(N) |-> l2(i, i)], N - 1)
        l12 == total - diag
    IN  [dets |-> [k \in Idx(K) |-> Det(om[k], N)],
         lin |-> SumTo([k \in Idx(K) |-> FMul(ns[k], tr(k))], K - 1) + FMul(rh, l12)]

-----------------------------------------------------------------------------
(* group_sparse_covariance: the pieces of its body *)

\* the checks with the signals test moved in front of the rho test
validation_error_signals_first(rh, sig) ==
    IF ~sig.iterable THEN "ValueError:signals"
    ELSE IF rh.kind \notin {"int", "float"} \/ rh.val < 0 THEN "ValueError:rho"
    ELSE IF Cardinality({sig.items[i].shape[2] : i \in DOMAIN sig.items}) > 1
         THEN "ValueError:features"
    ELSE "none"

\* lines 192-204: the three checks, in the order of the source; the result is
\* the check that raises ValueError, or "none"
validation_error(rh, sig) ==
    IF rh.kind \notin {"int", "float"} \/ rh.val < 0 THEN "ValueError:rho"
    ELSE IF ~sig.iterable THEN "ValueError:signals"
    ELSE IF Cardinality({sig.items[i].shape[2] : i \in DOMAIN sig.items}) > 1
         THEN "ValueError:features"
    ELSE "none"

\* lines 208-209: sample counts divided by their maximum
normalized_samples(sig) ==
    LET K == Len(sig.items)
        mx == CHOOSE x \in {sig.items[i].shape[1] : i \in 1..K} :
                 \A i \in 1..K : sig.items[i].shape[1] <= x
    IN  [k \in Idx(K) |-> FDiv(sig.items[k + 1].shape[1] * Scale, mx * Scale)]

\* lines 211-215: empirical covariance of every task, symmetrized
empirical_covariances(sig, N) ==
    [k \in Idx(Len(sig.items)) |-> symmetrize(sig.items[k + 1].cov, N)]

\* lines 220-224: omega[..., k] = np.diag(1. / np.diag(emp_covs[..., k]))
initial_omega(ec, K, N) ==
    [k \in Idx(K) |-> [i \in Idx(N) |-> [j \in Idx(N) |->
        IF i = j THEN FDiv(Scale, ec[k][i][i]) ELSE 0]]]

\* line 249: the pivot at which W and Winv are rebuilt instead of updated
is_first_pivot(pp) == pp = 0

\* lines 281-282 (and 284-285): column pp of M without its entry pp
pivot_column(M, N, pp) ==
    [i \in Idx(N - 1) |-> M[IF i < pp THEN i ELSE i + 1][pp]]

\* lines 299-306: c[k] for coordinate mm of pivot pp
coordinate_c(ns, ec, winv, yy, uu, K, N, pp, mm) ==
    [k \in Idx(K) |->
        LET h_12 == [i \in Idx(N - 2) |-> winv[k][IF i < mm THEN i ELSE i + 1][mm]]
            y_1 == [i \in Idx(N - 2) |-> yy[k][IF i < mm THEN i ELSE i + 1]]
        IN  FMul(-ns[k], FMul(ec[k][pp][pp], Dot(h_12, y_1, N - 2)) + uu[k][mm])]

\* line 307: c2 = np.sqrt(np.dot(c, c))
group_norm(c, K) == FSqrt(Dot(c, c, K))

\* line 310: the test that zeroes the coordinate for all tasks
group_is_zero(c2, rh) == c2 <= rh

\* y[0, m] = 0: the first task only
zero_coordinate_first_task(yy, K, mm) ==
    [k \in Idx(K) |-> IF k = 0 THEN [yy[k] EXCEPT ![mm] = 0] ELSE yy[k]]

\* line 311: y[:, m] = 0
zero_coordinate(yy, K, mm) == [k \in Idx(K) |-> [yy[k] EXCEPT ![mm] = 0]]

\* line 315: q = n_samples * emp_covs[p, p, :] * Winv[m, m, :]
coordinate_q(ns, ec, winv, K, pp, mm) ==
    [k \in Idx(K) |-> FMul(FMul(ns[k], ec[k][pp][pp]), winv[k][mm][mm])]

\* lines 333-336: what a residual does: "warn" is warnings.warn, after which
\* the function goes on; nothing here raises
residual_outcome(remainder) == IF Abs(remainder) * 10 > Scale THEN "warn" ELSE "ok"

\* line 340: (alpha * c) / (1. + alpha * q) for one task
coordinate_value(alpha, ck, qk) == FDiv(FMul(alpha, ck), Scale + FMul(alpha, qk))

\* the diagonal entry without its 1 / emp_covs[p, p, k] term
pivot_diagonal_no_variance(ecpp, yk, winvk, d) ==
    Dot([j \in Idx(d) |-> Dot(yk, [i \in Idx(d) |-> winvk[i][j]], d)], yk, d)

\* lines 349-350: omega[p, p, k]
pivot_diagonal(ecpp, yk, winvk, d) ==
    FDiv(Scale, ecpp)
      + Dot([j \in Idx(d) |-> Dot(yk, [i \in Idx(d) |-> winvk[i][j]], d)], yk, d)

\* y copied into row pp only, column pp left as it was
write_back_row_only(om, yk, diag, N, pp) ==
    [i \in Idx(N) |-> [j \in Idx(N) |->
        IF i = pp /\ j = pp THEN diag
        ELSE IF i = pp THEN yk[IF j < pp THEN j ELSE j - 1]
        ELSE om[i][j]]]

\* lines 343-350: y copied into column pp and row pp of one task's omega,
\* and the diagonal entry set
write_back(om, yk, diag, N, pp) ==
    [i \in Idx(N) |-> [j \in Idx(N) |->
        IF i = pp /\ j = pp THEN diag
        ELSE IF j = pp THEN yk[IF i < pp THEN i ELSE i - 1]
        ELSE IF i = pp THEN yk[IF j < pp THEN j ELSE j - 1]
        ELSE om[i][j]]]

\* a driver that stops one sweep early
loop_next_one_sweep_short(nn, pp, N, iters) ==
    IF pp + 1 < N THEN [n |-> nn, p |-> pp + 1, pc |-> "maintain"]
    ELSE IF nn + 2 < iters THEN [n |-> nn + 1, p |-> 0, pc |-> "maintain"]
    ELSE [n |-> nn, p |-> pp, pc |-> "return"]

\* lines 243, 247: the position after pivot pp of sweep nn
loop_next(nn, pp, N, iters) ==
    IF pp + 1 < N THEN [n |-> nn, p |-> pp + 1, pc |-> "maintain"]
    ELSE IF nn + 1 < iters THEN [n |-> nn + 1, p |-> 0, pc |-> "maintain"]
    ELSE [n |-> nn, p |-> pp, pc |-> "return"]

\* the costs returned whether asked for or not
returned_tuple_always_costs(ec, om, cs, rc) == <<ec, om, cs>>

\* lines 361-364: the returned tuple
returned_tuple(ec, om, cs, rc) == IF rc THEN <<ec, om, cs>> ELSE <<ec, om>>

-----------------------------------------------------------------------------
(* The state machine *)

NoStep == [branch |-> "none", m |-> 0, before |-> <<>>, c |-> <<>>, c2 |-> 0,
           q |-> <<>>, alpha |-> 0, remainder |-> 0, outcome |-> "ok"]

Init ==
    /\ signals \in SignalsInputs
    /\ rho \in RhoInputs
    /\ n_iter \in 1..MaxIter
    /\ return_costs \in BOOLEAN
    /\ pc = "validate"
    /\ exc = "none"
    /\ n_tasks = 0 /\ n_var = 0
    /\ n_samples = <<>> /\ emp_covs = <<>> /\ omega = <<>>
    /\ W = <<>> /\ Winv = <<>> /\ y = <<>> /\ u = <<>>
    /\ n = 0 /\ p = 0 /\ m = 0
    /\ costs = <<>>
    /\ result = <<>>
    /\ warned = 0
    /\ last = NoStep
    /\ zeroed = {}
    /\ all_zeroed = TRUE
    /\ events = <<>>

\* lines 192-204
Validate ==
    /\ pc = "validate"
    /\ LET err == validation_error(rho, signals)
       IN  IF err = "none" THEN pc' = "setup" /\ exc' = exc
           ELSE pc' = "raised" /\ exc' = err
    /\ UNCHANGED <<signals, rho, n_iter, return_costs, n_tasks, n_var, n_samples,
                   emp_covs, omega, W, Winv, y, u, n, p, m, costs, result,
                   warned, last, zeroed, all_zeroed, events>>

\* lines 205-243: sizes, covariances, the diagonal start, the buffers
Setup ==
    /\ pc = "setup"
    /\ IF Len(signals.items) = 0
       THEN \* line 206: signals[0] of an empty list
            /\ pc' = "raised" /\ exc' = "IndexError"
            /\ UNCHANGED <<n_tasks, n_var, n_samples, emp_covs, omega>>
       ELSE LET K == Len(signals.items)
                N == signals.items[1].shape[2]
                ec == empirical_covariances(signals, N)
            IN  /\ n_tasks' = K
                /\ n_var' = N
                /\ n_samples' = normalized_samples(signals)
                /\ emp_covs' = ec
                /\ omega' = initial_omega(ec, K, N)
                /\ IF N - 2 < 0
                   THEN \* line 229: np.ndarray with a negative dimension
                        pc' = "raised" /\ exc' = "ValueError:shape"
                   ELSE pc' = (IF n_iter > 0 THEN "maintain" ELSE "return")
                        /\ exc' = exc
    /\ UNCHANGED <<signals, rho, n_iter, return_costs, W, Winv, y, u, n, p, m,
                   costs, result, warned, last, zeroed, all_zeroed, events>>

\* lines 249-260: pivot 0, W and Winv rebuilt from omega
Initialize ==
    /\ pc = "maintain"
    /\ is_first_pivot(p)
    /\ LET sub == [k \in Idx(n_tasks) |-> Minor(omega[k], n_var, 0, 0)]
       IN  IF \E k \in Idx(n_tasks) : Singular(sub[k], n_var - 1)
           THEN /\ pc' = "raised" /\ exc' = "LinAlgError"
                /\ UNCHANGED <<W, Winv, events>>
           ELSE /\ W' = sub
                /\ Winv' = [k \in Idx(n_tasks) |-> Inv(sub[k], n_var - 1)]
                /\ events' = Append(events, <<"initialize", n, p>>)
                /\ pc' = "extract" /\ exc' = exc
    /\ UNCHANGED <<signals, rho, n_iter, return_costs, n_tasks, n_var, n_samples,
                   emp_covs, omega, y, u, n, p, m, costs, result, warned, last,
                   zeroed, all_zeroed>>

\* lines 261-277: other pivots, W and Winv updated in place
Advance ==
    /\ pc = "maintain"
    /\ ~is_first_pivot(p)
    /\ LET upd == [k \in Idx(n_tasks) |->
                     update_submatrix(omega[k], n_var, W[k], Winv[k], p)]
       IN  /\ W' = [k \in Idx(n_tasks) |-> upd[k].sub]
           /\ Winv' = [k \in Idx(n_tasks) |-> upd[k].sub_inv]
    /\ events' = Append(events, <<"advance", n, p>>)
    /\ pc' = "extract"
    /\ UNCHANGED <<signals, rho, n_iter, return_costs, exc, n_tasks, n_var,
                   n_samples, emp_covs, omega, y, u, n, p, m, costs, result,
                   warned, last, zeroed, all_zeroed>>

\* lines 281-285: y and u extracted, the coordinate loop starts
Extract ==
    /\ pc = "extract"
    /\ y' = [k \in Idx(n_tasks) |-> pivot_column(omega[k], n_var, p)]
    /\ u' = [k \in Idx(n_tasks) |-> pivot_column(emp_covs[k], n_var, p)]
    /\ m' = 0
    /\ zeroed' = {}
    /\ pc' = "descent"
    /\ UNCHANGED <<signals, rho, n_iter, return_costs, exc, n_tasks, n_var,
                   n_samples, emp_covs, omega, W, Winv, n, p, costs, result,
                   warned, last, all_zeroed, events>>

\* what the history variables record of one coordinate step
Recorded(c, c2) ==
    /\ zeroed' = (IF c2 <= rho.val
                  THEN zeroed \cup {<<m, \E k \in Idx(n_tasks) : y[k][m] # 0>>}
                  ELSE zeroed)
    /\ all_zeroed' = (all_zeroed /\ c2 <= rho.val)

\* lines 299-311: coordinate m, c2 <= rho
CoordinateZero ==
    /\ pc = "descent"
    /\ LET c == coordinate_c(n_samples, emp_covs, Winv, y, u, n_tasks, n_var, p, m)
           c2 == group_norm(c, n_tasks)
       IN  /\ group_is_zero(c2, rho.val)
           /\ y' = zero_coordinate(y, n_tasks, m)
           /\ last' = [NoStep EXCEPT !.branch = "zero", !.m = m, !.c = c, !.c2 = c2,
                                     !.before = [k \in Idx(n_tasks) |-> y[k][m]]]
           /\ Recorded(c, c2)
    /\ m' = m + 1
    /\ pc' = (IF m + 1 < n_var - 1 THEN "descent" ELSE "writeback")
    /\ UNCHANGED <<signals, rho, n_iter, return_costs, exc, n_tasks, n_var,
                   n_samples, emp_covs, omega, W, Winv, u, n, p, costs, result,
                   warned, events>>

\* lines 299-309, 312-340: coordinate m, c2 > rho
CoordinateNewton ==
    /\ pc = "descent"
    /\ LET c == coordinate_c(n_samples, emp_covs, Winv, y, u, n_tasks, n_var, p, m)
           c2 == group_norm(c, n_tasks)
           q == coordinate_q(n_samples, emp_covs, Winv, n_tasks, p, m)
           cc == [k \in Idx(n_tasks) |-> FMul(c[k], c[k])]
           two_ccq == [k \in Idx(n_tasks) |-> FMul(2 * cc[k], q[k])]
           rho2 == FMul(rho.val, rho.val)
           root == newton(q, two_ccq, cc, rho2)
           alpha == root.x
           remainder == quad_trust_region(alpha, q, two_ccq, cc, rho2)
           outcome == residual_outcome(remainder)
       IN  /\ ~group_is_zero(c2, rho.val)
           /\ Recorded(c, c2)
           /\ IF ~root.converged
              THEN \* line 324: the exception of newton() leaves the function
                   /\ pc' = "raised" /\ exc' = "RuntimeError"
                   /\ last' = [NoStep EXCEPT !.branch = "newton", !.m = m, !.c = c,
                                             !.c2 = c2, !.q = q, !.alpha = alpha,
                                             !.before = [k \in Idx(n_tasks) |-> y[k][m]]]
                   /\ UNCHANGED <<y, m, warned>>
              ELSE /\ last' = [branch |-> "newton", m |-> m,
                               before |-> [k \in Idx(n_tasks) |-> y[k][m]],
                               c |-> c, c2 |-> c2, q |-> q, alpha |-> alpha,
                               remainder |-> remainder, outcome |-> outcome]
                   /\ warned' = (IF outcome = "warn" THEN warned + 1 ELSE warned)
                   /\ y' = [k \in Idx(n_tasks) |->
                              [y[k] EXCEPT ![m] = coordinate_value(alpha, c[k], q[k])]]
                   /\ m' = m + 1
                   /\ pc' = (IF m + 1 < n_var - 1 THEN "descent" ELSE "writeback")
                   /\ exc' = exc
    /\ UNCHANGED <<signals, rho, n_iter, return_costs, n_tasks, n_var,
                   n_samples, emp_covs, omega, W, Winv, u, n, p, costs, result,
                   events>>

\* lines 342-353: y copied back, the diagonal entry recomputed
WriteBack ==
    /\ pc = "writeback"
    /\ omega' = [k \in Idx(n_tasks) |->
                   write_back(omega[k], y[k],
                              pivot_diagonal(emp_covs[k][p][p], y[k], Winv[k], n_var - 1),
                              n_var, p)]
    /\ events' = Append(events, <<"update", n, p>>)
    /\ pc' = "cost"
    /\ UNCHANGED <<signals, rho, n_iter, return_costs, exc, n_tasks, n_var,
                   n_samples, emp_covs, W, Winv, y, u, n, p, m, costs, result,
                   warned, last, zeroed, all_zeroed>>

\* the loop counters move on (lines 243, 247)
Continue ==
    LET nx == loop_next(n, p, n_var, n_iter)
    IN  n' = nx.n /\ p' = nx.p /\ pc' = nx.pc

\* lines 355-359: return_costs, the cost is evaluated and appended
EvalCost ==
    /\ pc = "cost"
    /\ return_costs
    /\ costs' = Append(costs, group_sparse_covariance_cost(
                                  n_tasks, n_var, n_samples, rho.val, omega, emp_covs))
    /\ events' = Append(events, <<"cost", n, p>>)
    /\ Continue
    /\ UNCHANGED <<signals, rho, n_iter, return_costs, exc, n_tasks, n_var,
                   n_samples, emp_covs, omega, W, Winv, y, u, m, result, warned,
                   last, zeroed, all_zeroed>>

\* line 355: not return_costs
SkipCost ==
    /\ pc = "cost"
    /\ ~return_costs
    /\ Continue
    /\ UNCHANGED <<signals, rho, n_iter, return_costs, exc, n_tasks, n_var,
                   n_samples, emp_covs, omega, W, Winv, y, u, m, costs, result,
                   warned, last, zeroed, all_zeroed, events>>

\* lines 361-364
Return ==
    /\ pc = "return"
    /\ result' = returned_tuple(emp_covs, omega, costs, return_costs)
    /\ pc' = "returned"
    /\ UNCHANGED <<signals, rho, n_iter, return_costs, exc, n_tasks, n_var,
                   n_samples, emp_covs, omega, W, Winv, y, u, n, p, m, costs,
                   warned, last, zeroed, all_zeroed, events>>

Next ==
    \/ Validate
    \/ Setup
    \/ Initialize
    \/ Advance
    \/ Extract
    \/ CoordinateZero
    \/ CoordinateNewton
    \/ WriteBack
    \/ EvalCost
    \/ SkipCost
    \/ Return

Spec == Init /\ [][Next]_vars

-----------------------------------------------------------------------------
(* Properties *)

ValidationErrors == {"ValueError:rho", "ValueError:signals", "ValueError:features"}

RhoIsValid == rho.kind \in {"int", "float"} /\ rho.val >= 0

FeaturesDiffer ==
    \E i, j \in DOMAIN signals.items :
        signals.items[i].shape[2] # signals.items[j].shape[2]

\* nothing of the solve exists yet
NothingComputed ==
    /\ emp_covs = <<>> /\ omega = <<>> /\ W = <<>> /\ Winv = <<>>
    /\ events = <<>> /\ last = NoStep /\ costs = <<>>

\* the driver's maintenance and update events, costs left out
DriverEvents == SelectSeq(events, LAMBDA e : e[1] # "cost")

CostEvents == SelectSeq(events, LAMBDA e : e[1] = "cost")

\* what the driver does in iters sweeps over N pivots
ExpectedDriver(iters, N) ==
    [i \in 1..(2 * iters * N) |->
        LET t == (i - 1) \div 2
            sw == t \div N
            pv == t % N
        IN  IF i % 2 = 1
            THEN <<(IF pv = 0 THEN "initialize" ELSE "advance"), sw, pv>>
            ELSE <<"update", sw, pv>>]

IsPrefix(s, t) == Len(s) <= Len(t) /\ \A i \in 1..Len(s) : s[i] = t[i]

\* index in omega of coordinate mm of pivot pp
FullIndex(mm, pp) == IF mm < pp THEN mm ELSE mm + 1

\* C1: a call with a bad rho, a non-iterable signals or tasks of differing
\* column counts ends in ValueError, the first failing check in the order
\* rho, signals, column counts being the one reported, and nothing of the
\* solve (covariances, omega, submatrices, sweeps) exists when it does.
C1_ValidationFirst ==
    pc # "validate" =>
      /\ ~RhoIsValid => pc = "raised" /\ exc = "ValueError:rho"
      /\ RhoIsValid /\ ~signals.iterable => pc = "raised" /\ exc = "ValueError:signals"
      /\ RhoIsValid /\ signals.iterable /\ FeaturesDiffer
            => pc = "raised" /\ exc = "ValueError:features"
      /\ exc \in ValidationErrors => NothingComputed

C1_Witness ==
    pc = "raised" /\ exc = "ValueError:rho" /\ rho.val < 0 /\ ~signals.iterable

\* C2: in every state, every task's omega is exactly symmetric.
C2_Symmetric ==
    \A k \in DOMAIN omega : \A i, j \in Idx(n_var) :
        omega[k][i][j] = omega[k][j][i]

C2_Witness ==
    /\ pc = "cost" /\ n = 1
    /\ \E k \in Idx(n_tasks) : \E j \in Idx(n_var) : j # p /\ omega[k][p][j] # 0

\* C3: in the returned matrices an off-diagonal entry is zero for one task
\* only if it is zero for every task.
C3_CommonPattern ==
    pc = "returned" =>
      \A i, j \in Idx(n_var) :
        i # j /\ (\E k \in Idx(n_tasks) : omega[k][i][j] = 0)
          => \A k \in Idx(n_tasks) : omega[k][i][j] = 0

\* C4: a coordinate whose joint norm c2 was at most rho stays zero in y for
\* the rest of its pivot, and after the write-back the entry is zero in row p
\* and in column p of every task.
C4_GroupThreshold ==
    /\ pc \in {"descent", "writeback", "cost"} =>
         \A z \in zeroed : \A k \in Idx(n_tasks) : y[k][z[1]] = 0
    /\ pc = "cost" =>
         \A z \in zeroed : \A k \in Idx(n_tasks) :
            /\ omega[k][p][FullIndex(z[1], p)] = 0
            /\ omega[k][FullIndex(z[1], p)][p] = 0

C4_Witness ==
    /\ pc = "cost" /\ n_tasks = 2
    /\ \E z \in zeroed : z[1] = 0 /\ z[2]
    /\ last.m = 1 /\ last.branch = "newton"
    /\ \E k \in Idx(n_tasks) : omega[k][p][FullIndex(1, p)] # 0

\* what the driver has done so far is the start of the fixed schedule, and
\* all of it once the loops are left
OnSchedule ==
    /\ n_var > 0 => IsPrefix(DriverEvents, ExpectedDriver(n_iter, n_var))
    /\ pc \in {"return", "returned"} => DriverEvents = ExpectedDriver(n_iter, n_var)

\* the number of steps the function still has to take, from the fixed budget
\* alone: 0 once it has returned or raised
StepsLeft ==
    LET N == IF pc \in {"validate", "setup"}
             THEN (IF signals.items = <<>> THEN 0 ELSE signals.items[1].shape[2])
             ELSE n_var
        perPivot == N + 3
        whole == 1 + n_iter * N * perPivot
        pivotsAfter == (n_iter - n) * N - p - 1
        after == 1 + pivotsAfter * perPivot
    IN  CASE pc = "validate" -> whole + 2
          [] pc = "setup" -> whole + 1
          [] pc = "maintain" -> after + perPivot
          [] pc = "extract" -> after + perPivot - 1
          [] pc = "descent" -> after + (N - 1 - m) + 2
          [] pc = "writeback" -> after + 2
          [] pc = "cost" -> after + 1
          [] pc = "return" -> 1
          [] OTHER -> 0

\* C5: the driver does maintenance then update for pivots 0..n_var-1 of
\* sweeps 0..n_iter-1 in order, Initialize exactly at pivot 0; it returns
\* only after all n_iter * n_var updates, and every step brings the end of
\* that fixed budget nearer: nothing repeats a pivot or adds a sweep.
C5_FixedBudget == []OnSchedule /\ [][StepsLeft' < StepsLeft]_vars

C5_Witness == pc = "returned" /\ n_iter = 2 /\ n_var = 3 /\ Len(DriverEvents) = 12

\* C6: a root search that does not converge is never fatal: no run ends in
\* an exception of the root search, a residual above 0.1 only warns, the
\* coordinate is set from the alpha obtained, no run that warned ends in an
\* exception, and a run that returns has done all n_iter * n_var updates.
C6_WarningNotFatal ==
    /\ exc # "RuntimeError"
    /\ warned > 0 => pc # "raised"
    /\ last.outcome # "ok" /\ pc \in {"descent", "writeback"} =>
         /\ warned > 0
         /\ \A k \in Idx(n_tasks) :
              y[k][last.m] = coordinate_value(last.alpha, last.c[k], last.q[k])
    /\ pc = "returned" =>
         Len(SelectSeq(events, LAMBDA e : e[1] = "update")) = n_iter * n_var

\* C7: while every coordinate step took c2 <= rho, every task's omega is the
\* diagonal matrix of the 1 / emp_covs[i, i, k].
C7_LargeRho ==
    all_zeroed /\ pc \notin {"validate", "setup", "raised"} =>
      \A k \in Idx(n_tasks) : \A i, j \in Idx(n_var) :
        omega[k][i][j] = (IF i = j THEN FDiv(Scale, emp_covs[k][i][i]) ELSE 0)

C7_Witness ==
    /\ pc = "returned" /\ all_zeroed /\ n_iter = 2 /\ n_tasks = 2
    /\ \E k \in Idx(n_tasks) : \E i, j \in Idx(n_var) :
          i # j /\ emp_covs[k][i][j] # 0

C9_Submatrix ==
    pc \in {"extract", "descent", "writeback", "cost"} =>
      \A k \in Idx(n_tasks) : W[k] = Minor(omega[k], n_var, p, p)

C9_Witness ==
    /\ pc = "extract" /\ n = 1 /\ p = 2
    /\ \E k \in Idx(n_tasks) : omega[k][1][0] # 0 /\ omega[k][1][2] # 0

\* C10: a call that passes the three validation checks raises nothing.
C10_ValidationComplete == pc = "raised" => exc \in ValidationErrors

====
